---- MODULE Spec2Model ----
(***************************************************************************)
(* KeyStalker extraction pipeline: the paginated Web Store collector with  *)
(* its checkpoint and record log (extracting/collecting.py), the bulk CRX  *)
(* downloader (extracting/download.py) and the manifest capability         *)
(* predicate (extracting/filtering.py).                                    *)
(*                                                                         *)
(* Text is modelled as a sequence of one-character strings, so that the    *)
(* substring search of is_string_in_file, the JSON escaping of json.dump   *)
(* and the suffix test of str.endswith are computed, not assumed.          *)
(***************************************************************************)
EXTENDS Integers, Sequences, FiniteSets, TLC

\* ---------------------------------------------------------------- bounds
MaxPages == 2
MaxRows == 2
MaxRuns == 2
MaxList == 2
MaxDlRuns == 2
MaxClRuns == 2

\* ------------------------------------------------------------ text helpers
RECURSIVE Concat(_)
Concat(ss) == IF ss = <<>> THEN <<>> ELSE Head(ss) \o Concat(Tail(ss))

\* Python's `needle in haystack` on str
IsSubstring(needle, haystack) ==
    \E i \in 0..(Len(haystack) - Len(needle)) :
        SubSeq(haystack, i + 1, i + Len(needle)) = needle

Range(s) == {s[i] : i \in DOMAIN s}

SeqsUpTo(S, n) == UNION {[1..k -> S] : k \in 0..n}

\* ------------------------------------------------------ collecting.py CONFIG
MIN_USER_COUNT == 1
\* the wire value of "no further pages" and Python's None
SENTINEL == -1
NoToken == 0

\* --------------------------------------------------------- catalog (input)
\* A raw catalog row carries the id, free text and the raw user count; a row
\* without the "users" field is a row list shorter than index 23.
RowA == [id |-> <<"a", "b">>, name |-> <<"x", "\"">>, users |-> <<"1", ",", "0", "+">>]
RowB == [id |-> <<"c", "d">>, name |-> <<"a", "b">>, users |-> <<"1">>]
RowC == [id |-> <<"e", "f">>, name |-> <<"z">>, users |-> <<"0">>]
RowE == [id |-> <<"g", "h">>, name |-> <<"y">>]
RowPool == {RowA, RowB, RowC, RowE}

PageContents == SeqsUpTo(RowPool, MaxRows)

RECURSIVE TotalRows(_)
TotalRows(cat) == IF cat = <<>> THEN 0 ELSE Len(Head(cat)) + TotalRows(Tail(cat))

\* the catalogs of at most MaxPages pages and MaxRows rows overall
Catalogs ==
    {cat \in UNION {[1..n -> PageContents] : n \in 1..MaxPages} :
        TotalRows(cat) <= MaxRows}

\* The page the catalog serves for a request: the first one without a token.
PageFor(token) == IF token = NoToken THEN 1 ELSE token

\* The history of requests keeps the last few of them; a run over a catalog
\* that ends issues fewer.
Remember(history, token) ==
    IF Len(history) < 2 * MaxPages * (MaxRows + 1) THEN Append(history, token)
    ELSE Append(Tail(history), token)

\* a response of the catalog endpoint: a network error, or a status and a body
\* that decodes as JSON or does not
Responses ==
    {[neterr |-> TRUE, status |-> 0, json |-> FALSE]} \cup
    {[neterr |-> FALSE, status |-> s, json |-> j] : s \in {200, 302, 500}, j \in BOOLEAN}

VARIABLES
    catalog,            \* the static catalog: a sequence of row lists
    loopTo,             \* the token the last page returns, 0 for the sentinel
    log,                \* OUTPUT_FILE: the records appended, one per line
    checkpoint,         \* CHECKPOINT_FILE: the token stored, NoToken if no file
    pc,                 \* position of the collector process
    next_page_token,    \* run(): local
    extension_items,    \* run(): local
    idx,                \* process_extensions(): loop position
    saved_this_page,    \* process_extensions(): new_entries
    runs,               \* number of invocations started
    endReason,          \* how the last finished run ended
    requests,           \* history: tokens of the requests of the current run
    fetchFailed,        \* history: the last request of this run failed
    ckCommitted,        \* history: checkpoint after the last completed page
    logCommitted,       \* history: log after the last completed page
    savedFrom,          \* history: page whose cursor this run saved last
    resumeN,            \* history: page N of an interrupted, resumed run
    settled,            \* history: some earlier run ended normally
    dupSkipped          \* history: a row was skipped as already recorded

cvars == <<catalog, loopTo, log, checkpoint, pc, next_page_token, extension_items, idx,
           saved_this_page, runs, endReason, requests, fetchFailed, ckCommitted,
           logCommitted, savedFrom, resumeN, settled, dupSkipped>>

VARIABLES
    extensions,     \* main(): the ids of the records loaded from the list file
    files,          \* DOWNLOAD_DIR: per id, whether <id>.crx exists and its bytes
    dpc,            \* position of the downloader process
    dpos,           \* main(): position of the loop over extensions
    written,        \* download_extension(): chunks of the body written so far
    druns,          \* number of downloader invocations started
    dEnd,           \* how the last finished invocation ended
    netCalls,       \* history: per id, the download requests issued
    dfailed,        \* history: positions whose request failed in this invocation
    dskipped        \* history: positions skipped as downloaded in this invocation

dvars == <<extensions, files, dpc, dpos, written, druns, dEnd, netCalls, dfailed,
           dskipped>>

VARIABLES
    manifest,       \* the descriptor handed to is_network_related
    verdict         \* its result, "none" before the call

mvars == <<manifest, verdict>>

VARIABLES
    archives,       \* DOWNLOAD_DIR: per id, the .crx file
    tree,           \* SOURCE_DIR: per id, the extraction directory and its files
    kpc,            \* position of the classifier process
    todo,           \* main(), phase 1: the archives not yet visited
    kpos,           \* position of the loop of phase 2 or of phase 3
    network_exts,   \* identify_network_related_extensions(): local
    cleaned,        \* history: the ids classified not network-related in this run
    loaded,         \* identify_network_related_extensions(): local manifest
    kruns,          \* number of classifier invocations started
    kEnd,           \* how the last finished invocation ended
    lastCall        \* history: the extraction call made by the last step

kvars == <<archives, tree, kpc, todo, kpos, network_exts, cleaned, loaded, kruns,
           kEnd, lastCall>>

\* The cursor returned with page k: the token of page k + 1; on the last page
\* the sentinel, or, for a catalog that never ends, the token of an earlier
\* page again.
WireCursor(cat, k) ==
    IF k < Len(cat) THEN k + 1
    ELSE IF loopTo = 0 THEN SENTINEL ELSE loopTo

\* ------------------------------------------------------------ record log
\* json.dumps of a str: quote and backslash are escaped
JsonEscapeChar(c) ==
    IF c = "\"" THEN <<"\\", "\"">>
    ELSE IF c = "\\" THEN <<"\\", "\\">>
    ELSE <<c>>

JsonEscape(s) == Concat([i \in DOMAIN s |-> JsonEscapeChar(s[i])])

\* one line of the log: the JSON object and the newline
Line(rec) ==
    <<"{\"id\": \"">> \o JsonEscape(rec.id)
        \o <<"\", \"name\": \"">> \o JsonEscape(rec.name)
        \o <<"\", \"user_count\": \"">> \o JsonEscape(rec.user_count)
        \o <<"\"}", "\n">>

FileText(records) == Concat([i \in DOMAIN records |-> Line(records[i])])

\* a search that compares the target with whole lines and so never finds an id
is_string_in_file_by_line(target_string, records) ==
    \E i \in DOMAIN records : Line(records[i]) = target_string

is_string_in_file(target_string, records) ==
    IsSubstring(target_string, FileText(records))

append_dict_to_file(data, records) == Append(records, data)

load_checkpoint(ck) == ck

save_checkpoint(token, ck) == token

\* a commit that also stores an absent cursor
CheckpointAfterPageAlways(token, ck) == save_checkpoint(token, ck)

\* run(), lines 92-93: only a cursor that is present is stored
CheckpointAfterPage(token, ck) ==
    IF token # NoToken THEN save_checkpoint(token, ck) ELSE ck

\* ------------------------------------------------------- row parsing
Digits == <<"0", "1", "2", "3", "4", "5", "6", "7", "8", "9">>
DigitValue(c) == CHOOSE d \in 0..9 : Digits[d + 1] = c

\* str.replace(',', '').replace('+', '')
StripSeparators(s) == SelectSeq(s, LAMBDA c : c \notin {",", "+"})

IsNumeral(s) == s # <<>> /\ \A i \in DOMAIN s : s[i] \in Range(Digits)

RECURSIVE NumeralValue(_)
NumeralValue(s) ==
    IF s = <<>> THEN 0
    ELSE 10 * NumeralValue(SubSeq(s, 1, Len(s) - 1)) + DigitValue(s[Len(s)])

\* parse_extension_info: ok = FALSE stands for the ValueError it raises
parse_extension_info(data) ==
    IF "users" \notin DOMAIN data \/ ~IsNumeral(StripSeparators(data.users))
    THEN [ok |-> FALSE]
    ELSE [ok |-> TRUE,
          ext_id |-> data.id,
          user_count |-> NumeralValue(StripSeparators(data.users)),
          extension_info |-> [id |-> data.id, name |-> data.name,
                              user_count |-> data.users]]

\* -------------------------------------------------------------- actions
\* run(), line 68: a new invocation loads the checkpoint
StartRun ==
    /\ pc \in {"idle", "done"}
    /\ runs < MaxRuns
    /\ runs' = runs + 1
    /\ next_page_token' = load_checkpoint(checkpoint)
    /\ pc' = "fetch"
    /\ requests' = <<>>
    /\ fetchFailed' = FALSE
    /\ ckCommitted' = checkpoint
    /\ logCommitted' = log
    /\ savedFrom' = 0
    /\ resumeN' = IF endReason = "interrupted" THEN savedFrom ELSE 0
    /\ settled' = (settled \/ endReason \in {"exhausted", "nonew"})
    /\ extension_items' = <<>>
    /\ idx' = 0
    /\ saved_this_page' = 0
    /\ dupSkipped' = FALSE
    /\ UNCHANGED <<catalog, loopTo, log, checkpoint, endReason>>
    /\ UNCHANGED <<dvars, mvars, kvars>>

\* make_request and parse_response raise
RequestFails(r) == r.neterr \/ r.status # 200 \/ ~r.json

\* a failed request that is tried again
FetchFailRetry(r) ==
    /\ pc = "fetch"
    /\ RequestFails(r)
    /\ Len(requests) < 2 * MaxPages
    /\ requests' = Remember(requests, next_page_token)
    /\ fetchFailed' = TRUE
    /\ UNCHANGED <<catalog, loopTo, log, checkpoint, pc, endReason, next_page_token,
                   extension_items, idx, saved_this_page, runs, ckCommitted,
                   logCommitted, savedFrom, resumeN, settled, dupSkipped>>
    /\ UNCHANGED <<dvars, mvars, kvars>>

\* run(), lines 73-80: the request or the decoding fails
FetchFail(r) ==
    /\ pc = "fetch"
    /\ RequestFails(r)
    /\ requests' = Remember(requests, next_page_token)
    /\ fetchFailed' = TRUE
    /\ pc' = "done"
    /\ endReason' = "error"
    /\ UNCHANGED <<catalog, loopTo, log, checkpoint, next_page_token, extension_items, idx,
                   saved_this_page, runs, ckCommitted, logCommitted, savedFrom,
                   resumeN, settled, dupSkipped>>
    /\ UNCHANGED <<dvars, mvars, kvars>>

\* a page arrives and its cursor is stored at once, before its rows are handled
FetchOkSavesEarly(r) ==
    /\ pc = "fetch"
    /\ ~RequestFails(r)
    /\ LET k == PageFor(next_page_token)
           wire == WireCursor(catalog, k)
       IN /\ requests' = Remember(requests, next_page_token)
          /\ extension_items' = catalog[k]
          /\ next_page_token' = IF wire # SENTINEL THEN wire ELSE NoToken
          /\ checkpoint' = CheckpointAfterPage(next_page_token', checkpoint)
          /\ IF catalog[k] = <<>>
             THEN /\ pc' = "done"
                  /\ endReason' = "exhausted"
                  /\ UNCHANGED <<idx, saved_this_page>>
             ELSE /\ pc' = "process"
                  /\ idx' = 1
                  /\ saved_this_page' = 0
                  /\ UNCHANGED endReason
    /\ fetchFailed' = FALSE
    /\ UNCHANGED <<catalog, loopTo, log, runs, ckCommitted, logCommitted,
                   savedFrom, resumeN, settled, dupSkipped>>
    /\ UNCHANGED <<dvars, mvars, kvars>>

\* run(), lines 73-87: a page arrives
FetchOk(r) ==
    /\ pc = "fetch"
    /\ ~RequestFails(r)
    /\ LET k == PageFor(next_page_token)
           wire == WireCursor(catalog, k)
       IN /\ requests' = Remember(requests, next_page_token)
          /\ extension_items' = catalog[k]
          /\ next_page_token' = IF wire # SENTINEL THEN wire ELSE NoToken
          /\ IF catalog[k] = <<>>
             THEN /\ pc' = "done"
                  /\ endReason' = "exhausted"
                  /\ UNCHANGED <<idx, saved_this_page>>
             ELSE /\ pc' = "process"
                  /\ idx' = 1
                  /\ saved_this_page' = 0
                  /\ UNCHANGED endReason
    /\ fetchFailed' = FALSE
    /\ UNCHANGED <<catalog, loopTo, log, checkpoint, runs, ckCommitted, logCommitted,
                   savedFrom, resumeN, settled, dupSkipped>>
    /\ UNCHANGED <<dvars, mvars, kvars>>

\* process_extensions, lines 135-144: one row of the page
ProcessRow ==
    /\ pc = "process"
    /\ idx <= Len(extension_items)
    /\ LET p == parse_extension_info(extension_items[idx])
       IN IF ~p.ok
          THEN \* the ValueError is not caught by run()
               /\ pc' = "done"
               /\ endReason' = "exception"
               /\ UNCHANGED <<log, idx, saved_this_page, dupSkipped>>
          ELSE /\ idx' = idx + 1
               /\ UNCHANGED <<pc, endReason>>
               /\ IF is_string_in_file(p.ext_id, log)
                  THEN /\ dupSkipped' = TRUE
                       /\ UNCHANGED <<log, saved_this_page>>
                  ELSE IF p.user_count >= MIN_USER_COUNT
                  THEN /\ log' = append_dict_to_file(p.extension_info, log)
                       /\ saved_this_page' = saved_this_page + 1
                       /\ UNCHANGED dupSkipped
                  ELSE UNCHANGED <<log, saved_this_page, dupSkipped>>
    /\ UNCHANGED <<catalog, loopTo, checkpoint, next_page_token, extension_items, runs,
                   requests, fetchFailed, ckCommitted, logCommitted, savedFrom,
                   resumeN, settled>>
    /\ UNCHANGED <<dvars, mvars, kvars>>

\* a commit that ends the run at every page without a next cursor
CommitPageStopsAtEnd ==
    /\ pc = "process"
    /\ idx > Len(extension_items)
    /\ checkpoint' = CheckpointAfterPage(next_page_token, checkpoint)
    /\ savedFrom' = IF next_page_token # NoToken
                    THEN PageFor(requests[Len(requests)])
                    ELSE 0
    /\ ckCommitted' = checkpoint'
    /\ logCommitted' = log
    /\ IF next_page_token = NoToken
       THEN pc' = "done" /\ endReason' = "nonew"
       ELSE pc' = "fetch" /\ UNCHANGED endReason
    /\ UNCHANGED <<catalog, loopTo, log, next_page_token, extension_items, idx,
                   saved_this_page, runs, requests, fetchFailed, resumeN, settled,
                   dupSkipped>>
    /\ UNCHANGED <<dvars, mvars, kvars>>

\* run(), lines 89-100: the page is done: checkpoint, then the exit test
CommitPage ==
    /\ pc = "process"
    /\ idx > Len(extension_items)
    /\ checkpoint' = CheckpointAfterPage(next_page_token, checkpoint)
    /\ savedFrom' = IF next_page_token # NoToken
                    THEN PageFor(requests[Len(requests)])
                    ELSE 0
    /\ ckCommitted' = checkpoint'
    /\ logCommitted' = log
    /\ IF saved_this_page = 0 /\ next_page_token = NoToken
       THEN pc' = "done" /\ endReason' = "nonew"
       ELSE pc' = "fetch" /\ UNCHANGED endReason
    /\ UNCHANGED <<catalog, loopTo, log, next_page_token, extension_items, idx,
                   saved_this_page, runs, requests, fetchFailed, resumeN, settled,
                   dupSkipped>>
    /\ UNCHANGED <<dvars, mvars, kvars>>

\* the process is killed between two steps of run()
Interrupt ==
    /\ pc \in {"fetch", "process"}
    /\ pc' = "done"
    /\ endReason' = "interrupted"
    /\ UNCHANGED <<catalog, loopTo, log, checkpoint, next_page_token, extension_items, idx,
                   saved_this_page, runs, requests, fetchFailed, ckCommitted,
                   logCommitted, savedFrom, resumeN, settled, dupSkipped>>
    /\ UNCHANGED <<dvars, mvars, kvars>>

CollectorNext ==
    \/ StartRun
    \/ \E r \in Responses : FetchFail(r)
    \/ \E r \in Responses : FetchOk(r)
    \/ ProcessRow
    \/ CommitPage
    \/ Interrupt

\* --------------------------------------------------------------- downloader
\* the ids a record of the list can carry; the empty one stands for a record
\* whose 'id' is missing or empty
RecordIds == {<<"a", "b">>, <<"c", "d">>, <<>>}
ArchiveIds == RecordIds \ {<<>>}

ExtensionLists == SeqsUpTo(RecordIds, MaxList)

\* the response body of the download of an id, in the chunks it is written in
Body(ext_id) == <<"Cr24", ext_id>>

NoFile == [exists |-> FALSE, data |-> <<>>]

\* the outcome of requests.get: a network error or a final status
DownloadResponses ==
    {[neterr |-> TRUE, status |-> 0]} \cup
    {[neterr |-> FALSE, status |-> s] : s \in {200, 404, 503}}

\* requests.get raises, or response.raise_for_status() does
DownloadFails(r) == r.neterr \/ (400 <= r.status /\ r.status < 600)

\* a completion test that looks at a path no download writes
isfile_elsewhere(ext_id, dir) == FALSE

\* main(), lines 68-70: os.path.isfile of <DOWNLOAD_DIR>/<id>.crx
isfile(ext_id, dir) == dir[ext_id].exists

\* main(), lines 57-62: an invocation loads the list and starts the loop
DStart ==
    /\ dpc \in {"idle", "done"}
    /\ druns < MaxDlRuns
    /\ druns' = druns + 1
    /\ dpc' = "loop"
    /\ dpos' = 1
    /\ written' = 0
    /\ dfailed' = {}
    /\ dskipped' = {}
    /\ UNCHANGED <<extensions, files, dEnd, netCalls>>
    /\ UNCHANGED <<cvars, mvars, kvars>>

\* main(), lines 63-71: the head of the loop: no id, already downloaded, or go on
DNextItem ==
    /\ dpc = "loop"
    /\ dpos <= Len(extensions)
    /\ LET ext_id == extensions[dpos]
       IN IF ext_id = <<>>
          THEN dpos' = dpos + 1 /\ UNCHANGED <<dpc, dskipped>>
          ELSE IF isfile(ext_id, files)
          THEN /\ dpos' = dpos + 1
               /\ dskipped' = dskipped \cup {dpos}
               /\ UNCHANGED dpc
          ELSE dpc' = "request" /\ UNCHANGED <<dpos, dskipped>>
    /\ UNCHANGED <<extensions, files, written, druns, dEnd, netCalls, dfailed>>
    /\ UNCHANGED <<cvars, mvars, kvars>>

\* main(): the loop is over
DFinish ==
    /\ dpc = "loop"
    /\ dpos > Len(extensions)
    /\ dpc' = "done"
    /\ dEnd' = "completed"
    /\ UNCHANGED <<extensions, files, dpos, written, druns, netCalls, dfailed, dskipped>>
    /\ UNCHANGED <<cvars, mvars, kvars>>

\* a failed request whose exception leaves the loop
DRequestFailAborts(r) ==
    /\ dpc = "request"
    /\ DownloadFails(r)
    /\ netCalls' = [netCalls EXCEPT ![extensions[dpos]] = @ + 1]
    /\ dfailed' = dfailed \cup {dpos}
    /\ dpc' = "done"
    /\ dEnd' = "exception"
    /\ UNCHANGED <<extensions, files, dpos, written, druns, dskipped>>
    /\ UNCHANGED <<cvars, mvars, kvars>>

\* download_extension, lines 48-50, and main(), lines 78-80: the request
\* fails and the exception is caught per item
DRequestFail(r) ==
    /\ dpc = "request"
    /\ DownloadFails(r)
    /\ netCalls' = [netCalls EXCEPT ![extensions[dpos]] = @ + 1]
    /\ dfailed' = dfailed \cup {dpos}
    /\ dpc' = "loop"
    /\ dpos' = dpos + 1
    /\ UNCHANGED <<extensions, files, written, druns, dEnd, dskipped>>
    /\ UNCHANGED <<cvars, mvars, kvars>>

\* download_extension, lines 48-50: the response arrives
DRequestOk(r) ==
    /\ dpc = "request"
    /\ ~DownloadFails(r)
    /\ netCalls' = [netCalls EXCEPT ![extensions[dpos]] = @ + 1]
    /\ dpc' = "open"
    /\ UNCHANGED <<extensions, files, dpos, written, druns, dEnd, dfailed, dskipped>>
    /\ UNCHANGED <<cvars, mvars, kvars>>

\* download_extension, line 52: open(output_path, 'wb') creates or truncates
\* the file under its final name
DOpen ==
    /\ dpc = "open"
    /\ files' = [files EXCEPT ![extensions[dpos]] = [exists |-> TRUE, data |-> <<>>]]
    /\ written' = 0
    /\ dpc' = "write"
    /\ UNCHANGED <<extensions, dpos, druns, dEnd, netCalls, dfailed, dskipped>>
    /\ UNCHANGED <<cvars, mvars, kvars>>

\* download_extension, line 52: open raises OSError; main() catches it
DOpenFail ==
    /\ dpc = "open"
    /\ dpc' = "loop"
    /\ dpos' = dpos + 1
    /\ UNCHANGED <<extensions, files, written, druns, dEnd, netCalls, dfailed, dskipped>>
    /\ UNCHANGED <<cvars, mvars, kvars>>

\* download_extension, line 53: the next chunk of the body reaches the file;
\* after the last one the file is closed and main() goes to the next item
DWriteChunk ==
    /\ dpc = "write"
    /\ LET ext_id == extensions[dpos]
           body == Body(ext_id)
       IN /\ files' = [files EXCEPT ![ext_id].data = Append(@, body[written + 1])]
          /\ written' = written + 1
          /\ IF written + 1 = Len(body)
             THEN dpc' = "loop" /\ dpos' = dpos + 1
             ELSE UNCHANGED <<dpc, dpos>>
    /\ UNCHANGED <<extensions, druns, dEnd, netCalls, dfailed, dskipped>>
    /\ UNCHANGED <<cvars, mvars, kvars>>

\* download_extension, line 53: the write raises OSError (disk full); the
\* file keeps what was written and main(), lines 78-80, catches the exception
DWriteFail ==
    /\ dpc = "write"
    /\ dpc' = "loop"
    /\ dpos' = dpos + 1
    /\ UNCHANGED <<extensions, files, written, druns, dEnd, netCalls, dfailed, dskipped>>
    /\ UNCHANGED <<cvars, mvars, kvars>>

\* the process is killed between two steps of main()
DInterrupt ==
    /\ dpc \in {"loop", "request", "open", "write"}
    /\ dpc' = "done"
    /\ dEnd' = "interrupted"
    /\ UNCHANGED <<extensions, files, dpos, written, druns, netCalls, dfailed, dskipped>>
    /\ UNCHANGED <<cvars, mvars, kvars>>

DownloaderNext ==
    \/ DStart
    \/ DNextItem
    \/ DFinish
    \/ \E r \in DownloadResponses : DRequestFail(r)
    \/ \E r \in DownloadResponses : DRequestOk(r)
    \/ DOpen
    \/ DOpenFail
    \/ DWriteChunk
    \/ DWriteFail
    \/ DInterrupt

\* ------------------------------------------------- filtering.py: descriptors
\* A JSON object is a function from its keys; a value of a list that may be a
\* string or an object carries its type, as isinstance reads it.
Get(d, k, default) == IF k \in DOMAIN d THEN d[k] ELSE default

\* str.endswith
EndsWith(s, suffix) ==
    /\ Len(s) >= Len(suffix)
    /\ SubSeq(s, Len(s) - Len(suffix) + 1, Len(s)) = suffix

PathHtml == <<"p", ".", "h", "t", "m", "l">>
PathJs == <<"p", ".", "j", "s">>
PathPng == <<"p", ".", "p", "n", "g">>
PathXhtml == <<"p", ".", "x", "h", "t", "m", "l">>
Paths == {PathHtml, PathJs, PathPng, PathXhtml}

StrEntry(path) == [type |-> "str", value |-> path]
DictEntry(d) == [type |-> "dict", value |-> d]

Absent == [present |-> FALSE, value |-> <<>>]
Present(v) == [present |-> TRUE, value |-> v]

\* web_accessible_resources: the list of paths of manifest version 2, or the
\* list of objects with 'resources' of manifest version 3
WarOptions ==
    {Absent, Present(<<>>)}
    \cup {Present(<<StrEntry(p)>>) : p \in Paths}
    \cup {Present(<<DictEntry([resources |-> <<p>>])>>) : p \in Paths}
    \cup {Present(<<DictEntry([matches |-> <<>>])>>)}

PermTabs == <<"t", "a", "b", "s">>
PermWebRequestBlocking ==
    <<"w", "e", "b", "R", "e", "q", "u", "e", "s", "t", "B", "l", "o", "c", "k", "i", "n", "g">>
PermUrl == <<"h", "t", "t", "p", ":", "/", "/", "a", "/", "*">>
PermAllUrls == <<"<", "a", "l", "l", "_", "u", "r", "l", "s", ">">>
PermissionPool == {PermTabs, PermWebRequestBlocking, PermUrl, PermAllUrls}

PermissionsOptions ==
    {Absent, Present(<<>>)} \cup {Present(<<p>>) : p \in PermissionPool}

PresenceOptions == {Absent, Present(<<>>)}

ContentScriptsOptions ==
    {Absent, Present(<<>>), Present(<<[matches |-> <<>>]>>),
     Present(<<[matches |-> <<>>, js |-> <<PathJs>>]>>)}

\* an action object: empty, without a popup, with an empty or a set popup
ActionOptions ==
    {Absent, Present(<<>>), Present([default_title |-> <<"t">>]),
     Present([default_popup |-> <<>>]), Present([default_popup |-> PathHtml])}

MkManifest(opts) ==
    [k \in {key \in DOMAIN opts : opts[key].present} |-> opts[k].value]

Manifests ==
    {MkManifest([web_accessible_resources |-> w, permissions |-> p,
                 host_permissions |-> h, chrome_url_overrides |-> u,
                 content_scripts |-> c, action |-> a, browser_action |-> b,
                 optional_permissions |-> o]) :
        w \in WarOptions, p \in PermissionsOptions, h \in PresenceOptions,
        u \in PresenceOptions, c \in ContentScriptsOptions, a \in ActionOptions,
        b \in ActionOptions, o \in PresenceOptions}

\* str() of a list of str: "['a', 'b']"
RECURSIVE PyStrItems(_)
PyStrItems(l) ==
    IF l = <<>> THEN <<>>
    ELSE <<"'">> \o Head(l) \o <<"'">>
         \o (IF Tail(l) = <<>> THEN <<>> ELSE <<",", " ">> \o PyStrItems(Tail(l)))

PyStr(l) == <<"[">> \o PyStrItems(l) \o <<"]">>

permissions_flags ==
    {<<":", "/", "/">>, PermAllUrls, <<"w", "e", "b", "R", "e", "q", "u", "e", "s", "t">>}

\* is_network_related, lines 119-122
web_accessible(m) ==
    LET war == Get(m, "web_accessible_resources", <<>>)
    IN \E i \in DOMAIN war :
          /\ war[i].type = "dict"
          /\ LET res == Get(war[i].value, "resources", <<>>)
             IN \E j \in DOMAIN res :
                   \/ EndsWith(res[j], <<"h", "t", "m", "l">>)
                   \/ EndsWith(res[j], <<"j", "s">>)

\* is_network_related, line 127
content_scripts(m) ==
    LET cs == Get(m, "content_scripts", <<>>)
    IN \E i \in DOMAIN cs : "js" \in DOMAIN cs[i]

\* is_network_related, lines 129-130
has_permissions(m) ==
    \E flag \in permissions_flags :
        IsSubstring(flag, PyStr(Get(m, "permissions", <<>>)))

\* is_network_related, lines 132-136
has_action(m) ==
    /\ "browser_action" \in DOMAIN m \/ "action" \in DOMAIN m
    /\ LET action == Get(m, "action", Get(m, "browser_action", <<>>))
       IN /\ DOMAIN action # {}
          /\ "default_popup" \in DOMAIN action
          /\ Len(action.default_popup) > 0

is_network_related(m) ==
    \/ web_accessible(m)
    \/ has_permissions(m)
    \/ "host_permissions" \in DOMAIN m
    \/ content_scripts(m)
    \/ has_action(m)
    \/ "optional_permissions" \in DOMAIN m
    \/ "chrome_url_overrides" \in DOMAIN m

\* a cleaning that forgets one of the keys
clean_manifest_keeps_short_name(m) ==
    [k \in DOMAIN m \ {"update_url", "name", "description", "icons", "version",
                       "default_locale"} |-> m[k]]

keys_to_remove ==
    <<"update_url", "name", "description", "short_name", "icons", "version",
      "default_locale">>

\* clean_manifest: manifest.pop(key, None) for each of the keys
clean_manifest(m) == [k \in DOMAIN m \ Range(keys_to_remove) |-> m[k]]

\* identify_network_related_extensions, lines 107-110: one descriptor is
\* classified, and cleaned in place when it is not network-related
Classify ==
    /\ verdict = "none"
    /\ verdict' = IF is_network_related(manifest) THEN "network" ELSE "clean"
    /\ manifest' = IF is_network_related(manifest) THEN manifest
                   ELSE clean_manifest(manifest)
    /\ UNCHANGED <<cvars, dvars, kvars>>

\* ---------------------------------------------- filtering.py: the classifier
ManifestName == "manifest.json"

\* The content of a file: whether it was written whole, whether it decodes as
\* JSON, and the JSON object if it does.
JsonFile(d) == [whole |-> TRUE, json |-> TRUE, value |-> d]
Data == [whole |-> TRUE, json |-> FALSE, value |-> <<>>]
\* a file whose writing was cut short
Torn == [whole |-> FALSE, json |-> FALSE, value |-> <<>>]

\* descriptors: one with a capability key, two without
DescNetwork ==
    [name |-> <<"n">>, version |-> <<"1">>, host_permissions |-> <<>>]
DescPlain ==
    [name |-> <<"n">>, description |-> <<"d">>, icons |-> [small |-> PathPng],
     version |-> <<"1">>, default_locale |-> <<"e", "n">>, short_name |-> <<"s">>,
     update_url |-> PermUrl, manifest_version |-> <<"3">>,
     permissions |-> <<PermTabs>>]
DescBare == [manifest_version |-> <<"2">>, author |-> <<"x">>]

NoFiles == [n \in {} |-> Data]

\* the entries of an archive: a descriptor, or none, and a script
WithScript(desc) ==
    [n \in {ManifestName, "bg.js"} |-> IF n = ManifestName THEN desc ELSE Data]
OnlyScript == [n \in {"bg.js"} |-> Data]
OnlyDescriptor(desc) == [n \in {ManifestName} |-> desc]

NoArchive == [exists |-> FALSE, zip |-> FALSE, entries |-> NoFiles]
\* a file that zipfile cannot open, such as a download cut short
BadZip == [exists |-> TRUE, zip |-> FALSE, entries |-> NoFiles]
Zip(entries) == [exists |-> TRUE, zip |-> TRUE, entries |-> entries]

ArchivePool ==
    {NoArchive, BadZip, Zip(OnlyScript), Zip(WithScript(JsonFile(DescNetwork))),
     Zip(WithScript(JsonFile(DescPlain))), Zip(OnlyDescriptor(JsonFile(DescBare))),
     Zip(WithScript(Data))}

NoDir == [exists |-> FALSE, files |-> NoFiles]
NoCall == [op |-> "none", id |-> <<>>, force |-> FALSE]

\* extraction writes the given entries over what the directory holds
Extracted(dir, entries) ==
    [exists |-> dir.exists \/ DOMAIN entries # {},
     files |-> [n \in DOMAIN dir.files \cup DOMAIN entries |->
                    IF n \in DOMAIN entries THEN entries[n] ELSE dir.files[n]]]

\* unzip_manifest_only: the directory of ext_id after the call
unzip_manifest_only(ext_id) ==
    IF ManifestName \in DOMAIN tree[ext_id].files THEN tree[ext_id]
    ELSE IF ~archives[ext_id].zip THEN tree[ext_id]
    ELSE IF ManifestName \notin DOMAIN archives[ext_id].entries THEN tree[ext_id]
    ELSE Extracted(tree[ext_id],
                   OnlyDescriptor(archives[ext_id].entries[ManifestName]))

\* a full extraction that returns whenever the directory exists
unzip_all_files_unforced(ext_id, force) ==
    IF tree[ext_id].exists THEN tree[ext_id]
    ELSE IF ~archives[ext_id].zip THEN tree[ext_id]
    ELSE Extracted(tree[ext_id], archives[ext_id].entries)

\* a full extraction that never looks at the directory
unzip_all_files_always(ext_id, force) ==
    IF ~archives[ext_id].zip THEN tree[ext_id]
    ELSE Extracted(tree[ext_id], archives[ext_id].entries)

\* unzip_all_files: the directory of ext_id after the call
unzip_all_files(ext_id, force) ==
    IF tree[ext_id].exists /\ ~force THEN tree[ext_id]
    ELSE IF ~archives[ext_id].zip THEN tree[ext_id]
    ELSE Extracted(tree[ext_id], archives[ext_id].entries)

\* list.sort() and sorted() over the ids
IdOrder == <<<<"a", "b">>, <<"c", "d">>>>
Sorted(ids) == SelectSeq(IdOrder, LAMBDA i : i \in ids)

list_extension_ids == Sorted({i \in ArchiveIds : archives[i].exists})

\* find_extracted_dir_by_id and line 101: the descriptor path exists (the
\* working directory itself holds no manifest.json)
manifest_path_exists(ext_id) ==
    tree[ext_id].exists /\ ManifestName \in DOMAIN tree[ext_id].files

find_crx_file_by_id(ext_id) == archives[ext_id].exists

\* main(): an invocation starts with phase 1 over the files of DOWNLOAD_DIR
KStart ==
    /\ kpc \in {"idle", "done"}
    /\ kruns < MaxClRuns
    /\ kruns' = kruns + 1
    /\ kpc' = "phase1"
    /\ todo' = {i \in ArchiveIds : archives[i].exists}
    /\ kpos' = 0
    /\ network_exts' = {}
    /\ cleaned' = {}
    /\ loaded' = <<>>
    /\ lastCall' = NoCall
    /\ UNCHANGED <<archives, tree, kEnd>>
    /\ UNCHANGED <<cvars, dvars, mvars>>

\* main(), lines 158-160: one archive, in the order os.listdir gives
Phase1Item(i) ==
    /\ kpc = "phase1"
    /\ i \in todo
    /\ tree' = [tree EXCEPT ![i] = unzip_manifest_only(i)]
    /\ todo' = todo \ {i}
    /\ lastCall' = [op |-> "manifest", id |-> i, force |-> FALSE]
    /\ UNCHANGED <<archives, kpc, kpos, network_exts, cleaned, loaded, kruns, kEnd>>
    /\ UNCHANGED <<cvars, dvars, mvars>>

\* unzip_manifest_only, line 22: the process is killed while the descriptor
\* is being written
Phase1Killed(i) ==
    /\ kpc = "phase1"
    /\ i \in todo
    /\ unzip_manifest_only(i) # tree[i]
    /\ tree' = [tree EXCEPT ![i] = Extracted(tree[i], OnlyDescriptor(Torn))]
    /\ kpc' = "done"
    /\ kEnd' = "interrupted"
    /\ lastCall' = [op |-> "manifest", id |-> i, force |-> FALSE]
    /\ UNCHANGED <<archives, todo, kpos, network_exts, cleaned, loaded, kruns>>
    /\ UNCHANGED <<cvars, dvars, mvars>>

\* main(), line 163: identify_network_related_extensions is called
Phase1Done ==
    /\ kpc = "phase1"
    /\ todo = {}
    /\ kpc' = "phase2"
    /\ kpos' = 1
    /\ lastCall' = NoCall
    /\ UNCHANGED <<archives, tree, todo, network_exts, cleaned, loaded, kruns, kEnd>>
    /\ UNCHANGED <<cvars, dvars, mvars>>

\* identify_network_related_extensions, lines 97-110: one id of the loop
Phase2Item ==
    /\ kpc = "phase2"
    /\ kpos <= Len(list_extension_ids)
    /\ LET ext_id == list_extension_ids[kpos]
           file == tree[ext_id].files[ManifestName]
       IN IF ~manifest_path_exists(ext_id)
          THEN /\ kpos' = kpos + 1
               /\ UNCHANGED <<kpc, kEnd, network_exts, cleaned, loaded>>
          ELSE IF ~file.json
          THEN \* json.load raises; neither the loop nor main() catches it
               /\ kpc' = "done"
               /\ kEnd' = "exception"
               /\ UNCHANGED <<kpos, network_exts, cleaned, loaded>>
          ELSE IF is_network_related(file.value)
          THEN /\ network_exts' = network_exts \cup {ext_id}
               /\ loaded' = file.value
               /\ kpos' = kpos + 1
               /\ UNCHANGED <<kpc, kEnd, cleaned>>
          ELSE /\ cleaned' = cleaned \cup {ext_id}
               /\ loaded' = clean_manifest(file.value)
               /\ kpos' = kpos + 1
               /\ UNCHANGED <<kpc, kEnd, network_exts>>
    /\ lastCall' = NoCall
    /\ UNCHANGED <<archives, tree, todo, kruns>>
    /\ UNCHANGED <<cvars, dvars, mvars>>

\* identify_network_related_extensions, line 112, and main(), line 166
Phase2Done ==
    /\ kpc = "phase2"
    /\ kpos > Len(list_extension_ids)
    /\ kpc' = "phase3"
    /\ kpos' = 1
    /\ lastCall' = NoCall
    /\ UNCHANGED <<archives, tree, todo, network_exts, cleaned, loaded, kruns, kEnd>>
    /\ UNCHANGED <<cvars, dvars, mvars>>

\* main(), lines 166-170: one network-related id
Phase3Item ==
    /\ kpc = "phase3"
    /\ kpos <= Len(Sorted(network_exts))
    /\ LET ext_id == Sorted(network_exts)[kpos]
       IN IF find_crx_file_by_id(ext_id)
          THEN /\ tree' = [tree EXCEPT ![ext_id] = unzip_all_files(ext_id, TRUE)]
               /\ lastCall' = [op |-> "all", id |-> ext_id, force |-> TRUE]
          ELSE /\ UNCHANGED tree
               /\ lastCall' = NoCall
    /\ kpos' = kpos + 1
    /\ UNCHANGED <<archives, kpc, todo, network_exts, cleaned, loaded, kruns, kEnd>>
    /\ UNCHANGED <<cvars, dvars, mvars>>

\* unzip_all_files, line 45: the process is killed during extractall: some
\* entries are written, the one in progress is cut short
Phase3Killed ==
    /\ kpc = "phase3"
    /\ kpos <= Len(Sorted(network_exts))
    /\ LET ext_id == Sorted(network_exts)[kpos]
           entries == archives[ext_id].entries
       IN /\ find_crx_file_by_id(ext_id)
          /\ archives[ext_id].zip
          /\ \E n \in DOMAIN entries : \E done \in SUBSET (DOMAIN entries \ {n}) :
                tree' = [tree EXCEPT ![ext_id] =
                            Extracted(tree[ext_id],
                                      [e \in done \cup {n} |->
                                          IF e = n THEN Torn ELSE entries[e]])]
          /\ lastCall' = [op |-> "all", id |-> ext_id, force |-> TRUE]
    /\ kpc' = "done"
    /\ kEnd' = "interrupted"
    /\ UNCHANGED <<archives, todo, kpos, network_exts, cleaned, loaded, kruns>>
    /\ UNCHANGED <<cvars, dvars, mvars>>

\* main() returns
KFinish ==
    /\ kpc = "phase3"
    /\ kpos > Len(Sorted(network_exts))
    /\ kpc' = "done"
    /\ kEnd' = "completed"
    /\ lastCall' = NoCall
    /\ UNCHANGED <<archives, tree, todo, kpos, network_exts, cleaned, loaded, kruns>>
    /\ UNCHANGED <<cvars, dvars, mvars>>

\* the process is killed between two steps of main()
KInterrupt ==
    /\ kpc \in {"phase1", "phase2", "phase3"}
    /\ kpc' = "done"
    /\ kEnd' = "interrupted"
    /\ lastCall' = NoCall
    /\ UNCHANGED <<archives, tree, todo, kpos, network_exts, cleaned, loaded, kruns>>
    /\ UNCHANGED <<cvars, dvars, mvars>>

ClassifierNext ==
    \/ KStart
    \/ \E i \in ArchiveIds : Phase1Item(i)
    \/ \E i \in ArchiveIds : Phase1Killed(i)
    \/ Phase1Done
    \/ Phase2Item
    \/ Phase2Done
    \/ Phase3Item
    \/ Phase3Killed
    \/ KFinish
    \/ KInterrupt

\* a call of unzip_manifest_only on an archive of DOWNLOAD_DIR
CallManifestOnly(i) ==
    /\ kpc = "calls"
    /\ find_crx_file_by_id(i)
    /\ tree' = [tree EXCEPT ![i] = unzip_manifest_only(i)]
    /\ lastCall' = [op |-> "manifest", id |-> i, force |-> FALSE]
    /\ UNCHANGED <<archives, kpc, todo, kpos, network_exts, cleaned, loaded, kruns,
                   kEnd>>
    /\ UNCHANGED <<cvars, dvars, mvars>>

\* a call of unzip_all_files on an archive of DOWNLOAD_DIR
CallAllFiles(i, force) ==
    /\ kpc = "calls"
    /\ find_crx_file_by_id(i)
    /\ tree' = [tree EXCEPT ![i] = unzip_all_files(i, force)]
    /\ lastCall' = [op |-> "all", id |-> i, force |-> force]
    /\ UNCHANGED <<archives, kpc, todo, kpos, network_exts, cleaned, loaded, kruns,
                   kEnd>>
    /\ UNCHANGED <<cvars, dvars, mvars>>

UnzipNext ==
    \/ \E i \in ArchiveIds : CallManifestOnly(i)
    \/ \E i \in ArchiveIds : \E force \in BOOLEAN : CallAllFiles(i, force)

\* ------------------------------------------------------------ specifications
vars == <<cvars, dvars, mvars, kvars>>

\* the collector after construction, over some catalog: the list file exists
\* and is empty, there is no checkpoint file; the other stages are not run
Init ==
    /\ catalog \in Catalogs
    /\ loopTo = 0
    /\ log = <<>>
    /\ checkpoint = NoToken
    /\ pc = "idle"
    /\ next_page_token = NoToken
    /\ extension_items = <<>>
    /\ idx = 0
    /\ saved_this_page = 0
    /\ runs = 0
    /\ endReason = "none"
    /\ requests = <<>>
    /\ fetchFailed = FALSE
    /\ ckCommitted = NoToken
    /\ logCommitted = <<>>
    /\ savedFrom = 0
    /\ resumeN = 0
    /\ settled = FALSE
    /\ dupSkipped = FALSE
    /\ extensions = <<>>
    /\ files = [i \in ArchiveIds |-> NoFile]
    /\ dpc = "off"
    /\ dpos = 0
    /\ written = 0
    /\ druns = 0
    /\ dEnd = "none"
    /\ netCalls = [i \in ArchiveIds |-> 0]
    /\ dfailed = {}
    /\ dskipped = {}
    /\ manifest = <<>>
    /\ verdict = "none"
    /\ archives = [i \in ArchiveIds |-> NoArchive]
    /\ tree = [i \in ArchiveIds |-> NoDir]
    /\ kpc = "off"
    /\ todo = {}
    /\ kpos = 0
    /\ network_exts = {}
    /\ cleaned = {}
    /\ loaded = <<>>
    /\ kruns = 0
    /\ kEnd = "none"
    /\ lastCall = NoCall

Spec == Init /\ [][CollectorNext]_vars

\* The collector against a catalog that may never end: the last page returns
\* the sentinel or the token of one of the pages, so that the pages repeat.
InitLive ==
    /\ catalog \in Catalogs
    /\ loopTo \in 0..Len(catalog)
    /\ log = <<>>
    /\ checkpoint = NoToken
    /\ pc = "idle"
    /\ next_page_token = NoToken
    /\ extension_items = <<>>
    /\ idx = 0
    /\ saved_this_page = 0
    /\ runs = 0
    /\ endReason = "none"
    /\ requests = <<>>
    /\ fetchFailed = FALSE
    /\ ckCommitted = NoToken
    /\ logCommitted = <<>>
    /\ savedFrom = 0
    /\ resumeN = 0
    /\ settled = FALSE
    /\ dupSkipped = FALSE
    /\ extensions = <<>>
    /\ files = [i \in ArchiveIds |-> NoFile]
    /\ dpc = "off"
    /\ dpos = 0
    /\ written = 0
    /\ druns = 0
    /\ dEnd = "none"
    /\ netCalls = [i \in ArchiveIds |-> 0]
    /\ dfailed = {}
    /\ dskipped = {}
    /\ manifest = <<>>
    /\ verdict = "none"
    /\ archives = [i \in ArchiveIds |-> NoArchive]
    /\ tree = [i \in ArchiveIds |-> NoDir]
    /\ kpc = "off"
    /\ todo = {}
    /\ kpos = 0
    /\ network_exts = {}
    /\ cleaned = {}
    /\ loaded = <<>>
    /\ kruns = 0
    /\ kEnd = "none"
    /\ lastCall = NoCall

\* the steps of a run that is not killed
LiveRun ==
    \/ \E r \in Responses : FetchFail(r)
    \/ \E r \in Responses : FetchOk(r)
    \/ ProcessRow
    \/ CommitPage

LiveNext == StartRun \/ LiveRun

\* every request returns and the process keeps running
SpecLive == InitLive /\ [][LiveNext]_vars /\ WF_vars(LiveRun)

\* the downloader before its first invocation, over some list of records and
\* an empty download directory; the other stages are not run
InitDownloader ==
    /\ extensions \in ExtensionLists
    /\ files = [i \in ArchiveIds |-> NoFile]
    /\ dpc = "idle"
    /\ dpos = 0
    /\ written = 0
    /\ druns = 0
    /\ dEnd = "none"
    /\ netCalls = [i \in ArchiveIds |-> 0]
    /\ dfailed = {}
    /\ dskipped = {}
    /\ catalog = <<>>
    /\ loopTo = 0
    /\ log = <<>>
    /\ checkpoint = NoToken
    /\ pc = "off"
    /\ next_page_token = NoToken
    /\ extension_items = <<>>
    /\ idx = 0
    /\ saved_this_page = 0
    /\ runs = 0
    /\ endReason = "none"
    /\ requests = <<>>
    /\ fetchFailed = FALSE
    /\ ckCommitted = NoToken
    /\ logCommitted = <<>>
    /\ savedFrom = 0
    /\ resumeN = 0
    /\ settled = FALSE
    /\ dupSkipped = FALSE
    /\ manifest = <<>>
    /\ verdict = "none"
    /\ archives = [i \in ArchiveIds |-> NoArchive]
    /\ tree = [i \in ArchiveIds |-> NoDir]
    /\ kpc = "off"
    /\ todo = {}
    /\ kpos = 0
    /\ network_exts = {}
    /\ cleaned = {}
    /\ loaded = <<>>
    /\ kruns = 0
    /\ kEnd = "none"
    /\ lastCall = NoCall

SpecDownloader == InitDownloader /\ [][DownloaderNext]_vars

\* the capability predicate over some descriptor; the other stages are not run
InitPredicate ==
    /\ manifest \in Manifests
    /\ verdict = "none"
    /\ archives = [i \in ArchiveIds |-> NoArchive]
    /\ tree = [i \in ArchiveIds |-> NoDir]
    /\ kpc = "off"
    /\ todo = {}
    /\ kpos = 0
    /\ network_exts = {}
    /\ cleaned = {}
    /\ loaded = <<>>
    /\ kruns = 0
    /\ kEnd = "none"
    /\ lastCall = NoCall
    /\ catalog = <<>>
    /\ loopTo = 0
    /\ log = <<>>
    /\ checkpoint = NoToken
    /\ pc = "off"
    /\ next_page_token = NoToken
    /\ extension_items = <<>>
    /\ idx = 0
    /\ saved_this_page = 0
    /\ runs = 0
    /\ endReason = "none"
    /\ requests = <<>>
    /\ fetchFailed = FALSE
    /\ ckCommitted = NoToken
    /\ logCommitted = <<>>
    /\ savedFrom = 0
    /\ resumeN = 0
    /\ settled = FALSE
    /\ dupSkipped = FALSE
    /\ extensions = <<>>
    /\ files = [i \in ArchiveIds |-> NoFile]
    /\ dpc = "off"
    /\ dpos = 0
    /\ written = 0
    /\ druns = 0
    /\ dEnd = "none"
    /\ netCalls = [i \in ArchiveIds |-> 0]
    /\ dfailed = {}
    /\ dskipped = {}

SpecPredicate == InitPredicate /\ [][Classify]_vars

\* the classifier before its first invocation: some archives in DOWNLOAD_DIR,
\* nothing extracted; the other stages are not run
InitClassifier ==
    /\ manifest = <<>>
    /\ verdict = "none"
    /\ archives \in [ArchiveIds -> ArchivePool]
    /\ tree = [i \in ArchiveIds |-> NoDir]
    /\ kpc = "idle"
    /\ todo = {}
    /\ kpos = 0
    /\ network_exts = {}
    /\ cleaned = {}
    /\ loaded = <<>>
    /\ kruns = 0
    /\ kEnd = "none"
    /\ lastCall = NoCall
    /\ catalog = <<>>
    /\ loopTo = 0
    /\ log = <<>>
    /\ checkpoint = NoToken
    /\ pc = "off"
    /\ next_page_token = NoToken
    /\ extension_items = <<>>
    /\ idx = 0
    /\ saved_this_page = 0
    /\ runs = 0
    /\ endReason = "none"
    /\ requests = <<>>
    /\ fetchFailed = FALSE
    /\ ckCommitted = NoToken
    /\ logCommitted = <<>>
    /\ savedFrom = 0
    /\ resumeN = 0
    /\ settled = FALSE
    /\ dupSkipped = FALSE
    /\ extensions = <<>>
    /\ files = [i \in ArchiveIds |-> NoFile]
    /\ dpc = "off"
    /\ dpos = 0
    /\ written = 0
    /\ druns = 0
    /\ dEnd = "none"
    /\ netCalls = [i \in ArchiveIds |-> 0]
    /\ dfailed = {}
    /\ dskipped = {}

SpecClassifier == InitClassifier /\ [][ClassifierNext]_vars

\* directories that unzip_all_files can meet: none, an empty one, one with a
\* file of unknown origin
DirPool ==
    {NoDir, [exists |-> TRUE, files |-> NoFiles],
     [exists |-> TRUE, files |-> [n \in {"old.txt"} |-> Data]]}

\* the two extraction functions called in any order on some archives
InitUnzip ==
    /\ manifest = <<>>
    /\ verdict = "none"
    /\ archives \in [ArchiveIds -> ArchivePool]
    /\ tree \in [ArchiveIds -> DirPool]
    /\ kpc = "calls"
    /\ todo = {}
    /\ kpos = 0
    /\ network_exts = {}
    /\ cleaned = {}
    /\ loaded = <<>>
    /\ kruns = 0
    /\ kEnd = "none"
    /\ lastCall = NoCall
    /\ catalog = <<>>
    /\ loopTo = 0
    /\ log = <<>>
    /\ checkpoint = NoToken
    /\ pc = "off"
    /\ next_page_token = NoToken
    /\ extension_items = <<>>
    /\ idx = 0
    /\ saved_this_page = 0
    /\ runs = 0
    /\ endReason = "none"
    /\ requests = <<>>
    /\ fetchFailed = FALSE
    /\ ckCommitted = NoToken
    /\ logCommitted = <<>>
    /\ savedFrom = 0
    /\ resumeN = 0
    /\ settled = FALSE
    /\ dupSkipped = FALSE
    /\ extensions = <<>>
    /\ files = [i \in ArchiveIds |-> NoFile]
    /\ dpc = "off"
    /\ dpos = 0
    /\ written = 0
    /\ druns = 0
    /\ dEnd = "none"
    /\ netCalls = [i \in ArchiveIds |-> 0]
    /\ dfailed = {}
    /\ dskipped = {}

SpecUnzip == InitUnzip /\ [][UnzipNext]_vars

\* ------------------------------------------------------ collector claims
LogIds == {log[i].id : i \in DOMAIN log}

RunEndedNormally == pc = "done" /\ endReason \in {"exhausted", "nonew"}

\* every page of the catalog has rows
NoEmptyPage == \A k \in DOMAIN catalog : catalog[k] # <<>>

CatalogRows == UNION {Range(catalog[k]) : k \in DOMAIN catalog}

\* the ids that have a row with a parsed user count of at least MIN_USER_COUNT
QualifyingIds ==
    {row.id : row \in {r \in CatalogRows :
        /\ parse_extension_info(r).ok
        /\ parse_extension_info(r).user_count >= MIN_USER_COUNT}}

\* C1: in every reachable state of the collector, across pages, runs, failed
\* and interrupted runs, no id is the id of more than one entry of the log.
C1_IdAtMostOnce ==
    \A i, j \in DOMAIN log : log[i].id = log[j].id => i = j

\* a later run meets a row whose id is already recorded, and skips it
C1_Witness ==
    /\ runs >= 2
    /\ pc = "process"
    /\ idx > 1
    /\ dupSkipped
    /\ extension_items[idx - 1].id \in LogIds
    /\ log = logCommitted

\* C2: a run that resumes after an interruption which followed the commit of
\* the cursor of page N sends that cursor with its first request and requests
\* page N at no point of the run.
C2_ResumeNeverRefetches ==
    resumeN # 0 =>
        /\ requests # <<>> => requests[1] = WireCursor(catalog, resumeN)
        /\ \A i \in DOMAIN requests : PageFor(requests[i]) # resumeN

\* C3: after a first run from an empty log and no checkpoint that ends without
\* an error, the log holds exactly one entry for every id that has a row at
\* or above the threshold, and nothing else.
C3_LogIsQualifyingIds ==
    (runs = 1 /\ RunEndedNormally /\ NoEmptyPage) =>
        /\ LogIds = QualifyingIds
        /\ Len(log) = Cardinality(QualifyingIds)

\* C4: after a full run over a catalog of several pages whose last page
\* returns the sentinel, no cursor is left in the checkpoint.
C4_CheckpointAbsentAfterFullRun ==
    (runs = 1 /\ RunEndedNormally /\ NoEmptyPage /\ Len(catalog) >= 2) =>
        checkpoint = NoToken

\* C5: once a run has ended normally, a later run over the same catalog
\* appends nothing to the log and leaves the checkpoint as it was.
C5_SecondRunIdempotent ==
    [][settled => (log' = log /\ checkpoint' = checkpoint)]_vars

\* the second run has gone over a page of recorded rows and ended
C5_Witness ==
    /\ settled
    /\ RunEndedNormally
    /\ requests # <<>>
    /\ dupSkipped
    /\ checkpoint # NoToken

\* C6: a request that fails in transport or in decoding ends the run at once,
\* with the checkpoint and the log as the last completed page left them, and
\* the next invocation starts from that checkpoint.
C6_FailureAbortsAndPreserves ==
    /\ [](fetchFailed =>
            /\ pc = "done"
            /\ endReason = "error"
            /\ checkpoint = ckCommitted
            /\ log = logCommitted)
    /\ [][fetchFailed =>
            /\ requests' = requests \/ runs' = runs + 1
            /\ runs' = runs + 1 => next_page_token' = ckCommitted]_vars

\* the request for a later page fails after a page was stored and committed
C6_Witness ==
    /\ fetchFailed
    /\ Len(requests) >= 2
    /\ log # <<>>
    /\ checkpoint # NoToken

\* ----------------------------------------------------- downloader claims
\* download_extension is between open() and the end of the write of this id
BeingWritten(ext_id) == dpc = "write" /\ extensions[dpos] = ext_id

\* C7: a file that exists at the archive path of an id is neither requested
\* again nor changed, in this and in every later invocation.
C7_ExistingFileUntouched ==
    [][\A i \in ArchiveIds :
          (files[i].exists /\ ~BeingWritten(i)) =>
              (files'[i] = files[i] /\ netCalls'[i] = netCalls[i])]_vars

\* a second invocation has skipped a record downloaded by the first one
C7_Witness ==
    /\ druns = 2
    /\ \E p \in dskipped :
          /\ netCalls[extensions[p]] = 1
          /\ files[extensions[p]].data = Body(extensions[p])

\* C8: a request that fails creates no file at the record's archive path and
\* the loop goes on with the next record; an invocation that is not killed
\* ends only after the last record.
C8_FailureIsolated ==
    /\ [][(dpc = "request" /\ dfailed' # dfailed) =>
            /\ files' = files
            /\ ~files[extensions[dpos]].exists
            /\ dpc' = "loop"
            /\ dpos' = dpos + 1]_vars
    /\ []((dpc = "done" /\ dEnd # "interrupted") => dpos = Len(extensions) + 1)

\* the request of one record failed and a later record was downloaded
C8_Witness ==
    /\ dpc = "done"
    /\ dEnd = "completed"
    /\ \E p \in dfailed : \E q \in DOMAIN extensions :
          /\ q > p
          /\ extensions[q] \in ArchiveIds
          /\ ~files[extensions[p]].exists
          /\ files[extensions[q]].exists
          /\ files[extensions[q]].data = Body(extensions[q])

\* C9: a file that exists at an archive path and is not being written holds
\* the complete response body.
C9_PresentFileIsComplete ==
    \A i \in ArchiveIds :
        (files[i].exists /\ ~BeingWritten(i)) => files[i].data = Body(i)

\* ------------------------------------------------------ predicate claims
EndsInHtmlOrJs(path) ==
    \/ EndsWith(path, <<".", "h", "t", "m", "l">>)
    \/ EndsWith(path, <<".", "j", "s">>)

\* (1) an entry of web_accessible_resources, a path or an object with
\* resources, lists a path ending in '.html' or '.js'
Disjunct1 ==
    LET war == Get(manifest, "web_accessible_resources", <<>>)
    IN \E i \in DOMAIN war :
          IF war[i].type = "str" THEN EndsInHtmlOrJs(war[i].value)
          ELSE LET res == Get(war[i].value, "resources", <<>>)
               IN \E j \in DOMAIN res : EndsInHtmlOrJs(res[j])

\* (2) a permission string contains '://', '<all_urls>' or 'webRequest'
Disjunct2 ==
    LET perms == Get(manifest, "permissions", <<>>)
    IN \E i \in DOMAIN perms : \E flag \in permissions_flags :
          IsSubstring(flag, perms[i])

\* (4) a content-script entry declares a script
Disjunct4 ==
    LET cs == Get(manifest, "content_scripts", <<>>)
    IN \E i \in DOMAIN cs : "js" \in DOMAIN cs[i] /\ cs[i].js # <<>>

HasPopup(key) ==
    /\ key \in DOMAIN manifest
    /\ "default_popup" \in DOMAIN manifest[key]
    /\ manifest[key].default_popup # <<>>

\* (5) 'action' or 'browser_action' declares a non-empty default_popup
Disjunct5 == HasPopup("action") \/ HasPopup("browser_action")

SomeDisjunct ==
    \/ Disjunct1
    \/ Disjunct2
    \/ "host_permissions" \in DOMAIN manifest
    \/ Disjunct4
    \/ Disjunct5
    \/ "optional_permissions" \in DOMAIN manifest
    \/ "chrome_url_overrides" \in DOMAIN manifest

\* C10: a descriptor in which at least one of the seven disjuncts holds is
\* classified network-related.
C10_EachDisjunctSuffices ==
    (verdict # "none" /\ SomeDisjunct) => verdict = "network"

\* C11: a descriptor in which none of the seven disjuncts holds is classified
\* not network-related.
C11_NoDisjunctMeansClean ==
    (verdict # "none" /\ ~SomeDisjunct) => verdict = "clean"

\* ------------------------------------------------- collector claims, continued
\* the rows of the page fetched last have all been processed
PageProcessed == idx > Len(extension_items)

\* C13: a malformed row fails that row only: a run that is neither killed nor
\* stopped by a failed request ends with every row of its last page processed.
C13_MalformedRowFailsRowOnly ==
    (pc = "done" /\ endReason \notin {"interrupted", "error"}) =>
        (extension_items = <<>> \/ PageProcessed)

\* every row of page k parses, and each of its rows at or above the threshold
\* is found in the log by the search the collector uses
PageRecorded(k) ==
    \A i \in DOMAIN catalog[k] :
        LET p == parse_extension_info(catalog[k][i])
        IN p.ok /\ (p.user_count >= MIN_USER_COUNT =>
                        is_string_in_file(p.ext_id, log))

\* C14: the checkpoint is written only when every row of the page fetched last
\* has been processed, the value written is the cursor returned with that
\* page, and the stored cursor never points past a page whose records are not
\* in the log.
C14_CheckpointAfterRows ==
    /\ [][checkpoint' # checkpoint =>
            /\ pc = "process"
            /\ PageProcessed
            /\ checkpoint' = WireCursor(catalog, PageFor(requests[Len(requests)]))]_vars
    /\ [](checkpoint # NoToken =>
            \A k \in 1..(checkpoint - 1) : PageRecorded(k))

\* a run is killed while it handles the page after one whose cursor is stored
C14_Witness ==
    /\ pc = "done"
    /\ endReason = "interrupted"
    /\ checkpoint # NoToken
    /\ requests # <<>>
    /\ PageFor(requests[Len(requests)]) = checkpoint
    /\ ~PageProcessed
    /\ log # <<>>

\* the current run has requested the first page after an earlier request
Wrapped == \E i \in 2..Len(requests) : requests[i] = NoToken

\* C20: a page with rows, no next cursor and a new record does not end the run:
\* the next request carries no cursor, the pages passed again overwrite the
\* checkpoint with their cursors, and the run that started over stops only at
\* a page without cursor and without new records, at an empty page, at a
\* failed request or when it is killed.
C20_LastPageWithNewStartsOver ==
    /\ [][(/\ pc = "process"
           /\ PageProcessed
           /\ next_page_token = NoToken
           /\ saved_this_page > 0
           /\ ~(pc' = "done" /\ endReason' = "interrupted"))
            => (pc' = "fetch" /\ next_page_token' = NoToken)]_vars
    /\ [][(pc = "fetch" /\ requests' # requests)
            => requests'[Len(requests')] = next_page_token]_vars
    /\ [][(/\ Wrapped
           /\ pc = "process"
           /\ PageProcessed
           /\ next_page_token # NoToken
           /\ ~(pc' = "done" /\ endReason' = "interrupted"))
            => checkpoint' = next_page_token]_vars
    /\ [][(Wrapped /\ pc # "done" /\ pc' = "done")
            => \/ endReason' = "interrupted"
               \/ endReason' = "error" /\ pc = "fetch"
               \/ endReason' = "exhausted" /\ extension_items' = <<>>
               \/ /\ endReason' = "nonew"
                  /\ next_page_token = NoToken
                  /\ saved_this_page = 0]_vars

\* a run that started over passed an earlier page again, stored its cursor and
\* ended at the last page without a new record
C20_Witness ==
    /\ Wrapped
    /\ pc = "done"
    /\ endReason = "nonew"
    /\ checkpoint # NoToken
    /\ requests[1] = NoToken

\* ------------------------------------------------ downloader claims, continued
\* open or write raised: the item is left without the file having changed
StorageError ==
    /\ dpc \in {"open", "write"}
    /\ files' = files
    /\ ~(dpc' = "done" /\ dEnd' = "interrupted")

\* C15: a storage error while an archive is written ends the batch: the
\* invocation is over in that step and no later record is attempted.
C15_StorageErrorIsFatal ==
    [][StorageError => (dpc' = "done" /\ dpos' = dpos)]_vars

\* ------------------------------------------------- collector claims, continued
\* C18: a run that is not killed and whose requests return comes to an end,
\* also on a catalog that keeps returning pages of recorded items.
C18_RunTerminates == (pc \in {"fetch", "process"}) ~> (pc = "done")

\* ------------------------------------------------------- classifier claims
\* every entry of the archive of i is in the directory of i as the archive has it
FullyExtracted(i) ==
    \A n \in DOMAIN archives[i].entries :
        /\ n \in DOMAIN tree[i].files
        /\ tree[i].files[n] = archives[i].entries[n]

\* C12: when the three phases have completed, every item classified
\* network-related whose archive exists has all archive entries in its
\* directory, and every item classified not network-related has only the
\* descriptor there.
C12_FullTreeOnlyForNetwork ==
    (kpc = "done" /\ kEnd = "completed") =>
        /\ \A i \in network_exts :
              archives[i].exists => (tree[i].exists /\ FullyExtracted(i))
        /\ \A i \in cleaned : DOMAIN tree[i].files = {ManifestName}

\* a completed run with a network-related item whose directory gained the
\* script of the archive and an item cleaned that holds the descriptor alone
C12_Witness ==
    /\ kpc = "done"
    /\ kEnd = "completed"
    /\ \E i \in network_exts :
          /\ DOMAIN archives[i].entries = {ManifestName, "bg.js"}
          /\ DOMAIN tree[i].files = {ManifestName, "bg.js"}
    /\ \E i \in cleaned : "bg.js" \in DOMAIN archives[i].entries

\* the descriptor of i in its directory decodes as JSON
ValidDescriptor(i) ==
    /\ manifest_path_exists(i)
    /\ tree[i].files[ManifestName].json

\* C16: a descriptor that is not valid JSON is skipped: an invocation that is
\* not killed classifies every item whose extracted descriptor is valid and
\* completes, phase 3 included.
C16_InvalidDescriptorSkipped ==
    (kpc = "done" /\ kEnd # "interrupted") =>
        /\ kEnd = "completed"
        /\ \A i \in ArchiveIds :
              (archives[i].exists /\ ValidDescriptor(i)) =>
                  i \in network_exts \cup cleaned

StrippedKeys ==
    {"name", "description", "icons", "version", "default_locale", "short_name",
     "update_url"}

\* C17: classifying an item as not network-related leaves in memory the
\* descriptor of the disk without exactly the seven keys, every other key with
\* its value, and changes neither the extraction tree nor the archives.
C17_CleanStripsSevenKeysInMemory ==
    [][(kpc = "phase2" /\ cleaned' # cleaned) =>
          LET disk == tree[list_extension_ids[kpos]].files[ManifestName].value
          IN /\ DOMAIN loaded' = DOMAIN disk \ StrippedKeys
             /\ \A k \in DOMAIN loaded' : loaded'[k] = disk[k]
             /\ tree' = tree
             /\ archives' = archives]_vars

\* an item was cleaned: keys were removed in memory, others stayed, and the
\* descriptor on disk still has all of them
C17_Witness ==
    /\ kpc = "phase2"
    /\ kpos > 1
    /\ list_extension_ids[kpos - 1] \in cleaned
    /\ DOMAIN loaded = {"manifest_version", "permissions"}
    /\ tree[list_extension_ids[kpos - 1]].files[ManifestName] = JsonFile(DescPlain)

\* C19: unzip_all_files without force changes nothing when the directory of
\* the item exists, whatever it holds; with force it extracts every entry of
\* an archive it can open.
C19_NoReextractionUnlessForced ==
    /\ [][(/\ lastCall'.op = "all"
           /\ ~lastCall'.force
           /\ tree[lastCall'.id].exists) => (tree' = tree /\ archives' = archives)]_vars
    /\ [][(/\ lastCall'.op = "all"
           /\ lastCall'.force
           /\ archives[lastCall'.id].zip) =>
              /\ \A n \in DOMAIN archives[lastCall'.id].entries :
                    /\ n \in DOMAIN tree'[lastCall'.id].files
                    /\ tree'[lastCall'.id].files[n] = archives[lastCall'.id].entries[n]
              /\ archives' = archives]_vars

\* unzip_all_files was called without force on a directory that holds only
\* the descriptor written by unzip_manifest_only, and the script stayed out
C19_Witness ==
    /\ lastCall.op = "all"
    /\ ~lastCall.force
    /\ DOMAIN tree[lastCall.id].files = {ManifestName}
    /\ DOMAIN archives[lastCall.id].entries = {ManifestName, "bg.js"}
====
